---- MODULE Spec2Model ----
(***************************************************************************)
(* A model of the microps protocol dispatcher (src/net.c) and of its ARP   *)
(* subsystem (src/arp.c).                                                  *)
(*                                                                         *)
(* The dispatcher part (specifications Spec and FairSpec) follows the      *)
(* three list-walking entry points of net.c statement by statement: every  *)
(* iteration of a for-loop is one step, so that a walk which never reaches *)
(* the end of the list is a behaviour of the model like any other.         *)
(* The ARP part (specification SpecArp) follows arp_input and arp_resolve. *)
(* SpecDev is the device registry (register, net_run, net_shutdown,        *)
(* net_device_output); SpecArpConc runs arp_input in two callers that      *)
(* interleave at the cache mutex; SpecIrq and FairSpecIrq run              *)
(* net_input_handler against net_softirq_handler in the interrupt context. *)
(***************************************************************************)
EXTENDS Integers, Sequences, FiniteSets, TLC

VARIABLES
    protocols,   \* net.c:28  head of the protocol list (an address, NULL = 0)
    protos,      \* the allocated struct net_protocol records; address = index
    pc,          \* where the single thread of control is
    call,        \* arguments of the running (or last returned) call
    proto,       \* the local `proto` cursor of the running call
    ret,         \* value returned by the last call that returned
    raised,      \* number of intr_raise_irq(SIGUSR1) calls made so far
    walk,        \* history: the records the running call's cursor stood on
    pushed,      \* history: every entry handed to queue_push, in order
    delivered,   \* history: every handler invocation, in order
    caches,      \* arp.c:56  the ARP cache table
    mutex,       \* arp.c:55  TRUE while the cache mutex is held
    apc,         \* where the ARP thread of control is
    acall,       \* arguments, locals and effects of the running/last ARP call
    txlog,       \* frames the last ARP call had the driver transmit
    devices,     \* net.c:27  head of the device list (an address, NULL = 0)
    devs,        \* the registered struct net_device records; address = index
    index,       \* net.c:49  the static counter of net_device_register
    phase,       \* "setup" until net_run succeeded, then "running", then "down"
    dcall,       \* arguments and effects of the last device-registry call
    tpc,         \* where each of two concurrent arp_input callers is
    tcall,       \* the frame and the locals of each concurrent arp_input call
    irq,         \* TRUE while a raised software interrupt is not yet delivered
    cpc,         \* where the interrupt context running the softirq handler is
    cproto       \* the `proto` cursor of the interrupt context

netVars == <<protocols, protos, pc, call, proto, ret, raised, walk, pushed, delivered>>
arpVars == <<caches, mutex, apc, acall, txlog>>
devVars == <<devices, devs, index, phase, dcall>>
concVars == <<tpc, tcall>>
irqVars == <<irq, cpc, cproto>>
extVars == <<devVars, concVars, irqVars>>
vars == <<netVars, arpVars, extVars>>

-----------------------------------------------------------------------------
(* Bounds of the model.                                                    *)

\* At most this many frames are offered to net_input_handler in one run.
MaxFrames == 3
\* The walk history keeps at most this many cursor positions.
MaxWalk == 3

\* Protocol type tags (IP, ARP), handlers, devices and frame payloads
\* the environment chooses from.
Types == {2048, 2054}
Handlers == {"ip_input", "arp_input"}
Devices == {"net0", "net1"}
Payloads == {<<>>, <<7>>, <<7, 9>>}

NULL == 0

\* `known`, `npushed` and `nraised` are history: whether the type was registered,
\* and how many pushes and raises had been made, when the call was entered.
NoCall == [op |-> "none", type |-> 0, handler |-> "", data |-> <<>>, len |-> 0,
           dev |-> "", known |-> FALSE, npushed |-> 0, nraised |-> 0]

-----------------------------------------------------------------------------
(* Helpers over the heap of protocol records.                              *)

\* A type is registered once a net_protocol record carrying it was linked in.
Registered(type) == \E i \in 1..Len(protos) : protos[i].type = type

\* The record registered for a type (NULL if none).
RecordOf(type) ==
    IF Registered(type)
    THEN CHOOSE i \in 1..Len(protos) : protos[i].type = type
    ELSE NULL

\* The addresses met by following `next` from p for at most n steps.
RECURSIVE Chain(_, _)
Chain(p, n) ==
    IF p = NULL \/ n = 0 THEN <<>>
    ELSE <<p>> \o Chain(protos[p].next, n - 1)

\* The list is a finite chain ending in NULL: a walk reaches NULL within as
\* many steps as there are records.
ListEndsInNull == Len(Chain(protocols, Len(protos) + 1)) <= Len(protos)

\* History of cursor positions, kept up to MaxWalk entries.
Visit(w, p) == IF p = NULL \/ Len(w) >= MaxWalk THEN w ELSE Append(w, p)

NoRepeat(w) == \A i, j \in 1..Len(w) : i # j => w[i] # w[j]

-----------------------------------------------------------------------------
(* util.c (not part of the sources at hand): the queue is a FIFO.          *)

queue_push(q, e) == Append(q, e)
queue_front(q) == Head(q)
queue_rest(q) == Tail(q)

-----------------------------------------------------------------------------
(* net_protocol_register, net.c:135-164                                    *)

\* net.c:159  the value stored in the new record's `next` field; `new` is
\* the address of the new record, `head` the current list head.
NewRecordNext(new, head) == new

\* net.c:142  the duplicate test of the scan loop.
DupNever(type, p) == FALSE
IsDuplicate(type, p) == type = protos[p].type

RegisterCall(type, handler) ==
    /\ pc = "idle"
    /\ pc' = "reg_scan"
    /\ call' = [NoCall EXCEPT !.op = "register", !.type = type,
                              !.handler = handler, !.known = Registered(type)]
    /\ proto' = protocols
    /\ walk' = Visit(<<>>, protocols)
    /\ UNCHANGED <<protocols, protos, ret, raised, pushed, delivered, arpVars, extVars>>

\* net.c:142-146  the type is already in the list: fail.
RegisterDup ==
    /\ pc = "reg_scan"
    /\ proto # NULL
    /\ IsDuplicate(call.type, proto)
    /\ pc' = "idle"
    /\ ret' = -1
    /\ UNCHANGED <<protocols, protos, call, proto, raised, walk, pushed, delivered, arpVars, extVars>>

\* net.c:140  proto = proto->next
RegisterNext ==
    /\ pc = "reg_scan"
    /\ proto # NULL
    /\ ~IsDuplicate(call.type, proto)
    /\ proto' = protos[proto].next
    /\ walk' = Visit(walk, protos[proto].next)
    /\ UNCHANGED <<protocols, protos, pc, call, ret, raised, pushed, delivered, arpVars, extVars>>

\* net.c:149-163  end of list reached, allocation succeeds: link the record.
\* memory_alloc (platform.h) hands out zeroed memory, so the queue is empty.
RegisterLink ==
    /\ pc = "reg_scan"
    /\ proto = NULL
    /\ LET new == Len(protos) + 1 IN
         /\ protos' = Append(protos, [type |-> call.type,
                                      handler |-> call.handler,
                                      next |-> NewRecordNext(new, protocols),
                                      queue |-> <<>>])
         /\ protocols' = new
    /\ pc' = "idle"
    /\ ret' = 0
    /\ UNCHANGED <<call, proto, raised, walk, pushed, delivered, arpVars, extVars>>

\* net.c:150-154  memory_alloc returns NULL.
RegisterAllocFail ==
    /\ pc = "reg_scan"
    /\ proto = NULL
    /\ pc' = "idle"
    /\ ret' = -1
    /\ UNCHANGED <<protocols, protos, call, proto, raised, walk, pushed, delivered, arpVars, extVars>>

-----------------------------------------------------------------------------
(* net_input_handler, net.c:166-202                                        *)

\* net.c:182-184  the queue entry built from the caller's frame.
EntryTruncated(data, len, dev) ==
    [dev |-> dev, len |-> len, data |-> SubSeq(data, 1, len - 1)]
EntryOf(data, len, dev) ==
    [dev |-> dev, len |-> len, data |-> SubSeq(data, 1, len)]

\* net.c:173  the test of the scan loop.
MatchAny(type, p) == TRUE
TypeMatches(type, p) == protos[p].type = type

\* net.c:186  the record whose queue receives the entry; `found` is the
\* record the scan stopped at.
PushTarget(found) == protocols

InputCall(type, data, dev) ==
    /\ pc = "idle"
    /\ Len(pushed) < MaxFrames
    /\ pc' = "in_scan"
    /\ call' = [NoCall EXCEPT !.op = "input", !.type = type, !.data = data,
                              !.len = Len(data), !.dev = dev,
                              !.known = Registered(type),
                              !.npushed = Len(pushed), !.nraised = raised]
    /\ proto' = protocols
    /\ walk' = Visit(<<>>, protocols)
    /\ UNCHANGED <<protocols, protos, ret, raised, pushed, delivered, arpVars, extVars>>

\* net.c:173-193  match found, allocation succeeds: copy, push, raise.
InputPush ==
    /\ pc = "in_scan"
    /\ proto # NULL
    /\ TypeMatches(call.type, proto)
    /\ LET e == EntryOf(call.data, call.len, call.dev)
           q == PushTarget(proto) IN
         /\ protos' = [protos EXCEPT ![q].queue = queue_push(@, e)]
         /\ pushed' = Append(pushed, [type |-> call.type, queue |-> q,
                                      dev |-> call.dev, len |-> call.len,
                                      data |-> call.data])
    /\ raised' = raised + 1
    /\ pc' = "idle"
    /\ ret' = 0
    /\ UNCHANGED <<protocols, call, proto, walk, delivered, arpVars, extVars>>

\* net.c:175-180  match found, memory_alloc returns NULL.
InputAllocFail ==
    /\ pc = "in_scan"
    /\ proto # NULL
    /\ TypeMatches(call.type, proto)
    /\ pc' = "idle"
    /\ ret' = -1
    /\ UNCHANGED <<protocols, protos, call, proto, raised, walk, pushed, delivered, arpVars, extVars>>

\* net.c:171  proto = proto->next
InputNext ==
    /\ pc = "in_scan"
    /\ proto # NULL
    /\ ~TypeMatches(call.type, proto)
    /\ proto' = protos[proto].next
    /\ walk' = Visit(walk, protos[proto].next)
    /\ UNCHANGED <<protocols, protos, pc, call, ret, raised, pushed, delivered, arpVars, extVars>>

\* net.c:197-201  end of list: unsupported protocol, not an error.
InputUnsupported ==
    /\ pc = "in_scan"
    /\ proto = NULL
    /\ pc' = "idle"
    /\ ret' = 0
    /\ UNCHANGED <<protocols, protos, call, proto, raised, walk, pushed, delivered, arpVars, extVars>>

-----------------------------------------------------------------------------
(* net_softirq_handler, net.c:204-229                                      *)

\* net.c:222  the handler invocation made for a popped entry of record p.
Invocation(p, e) ==
    <<[proto |-> p, handler |-> protos[p].handler,
       data |-> e.data, len |-> e.len, dev |-> e.dev]>>

SoftirqCall ==
    /\ pc = "idle"
    /\ pc' = "sirq_loop"
    /\ call' = [NoCall EXCEPT !.op = "softirq"]
    /\ proto' = protocols
    /\ walk' = Visit(<<>>, protocols)
    /\ UNCHANGED <<protocols, protos, ret, raised, pushed, delivered, arpVars, extVars>>

\* net.c:213-224  pop one entry, hand it to the handler, free it.
SoftirqDeliver ==
    /\ pc = "sirq_loop"
    /\ proto # NULL
    /\ protos[proto].queue # <<>>
    /\ LET e == queue_front(protos[proto].queue) IN
         /\ delivered' = delivered \o Invocation(proto, e)
         /\ protos' = [protos EXCEPT ![proto].queue = queue_rest(@)]
    /\ UNCHANGED <<protocols, pc, call, proto, ret, raised, walk, pushed, arpVars, extVars>>

\* net.c:214-217, 209  the queue is empty: proto = proto->next
SoftirqNext ==
    /\ pc = "sirq_loop"
    /\ proto # NULL
    /\ protos[proto].queue = <<>>
    /\ proto' = protos[proto].next
    /\ walk' = Visit(walk, protos[proto].next)
    /\ UNCHANGED <<protocols, protos, pc, call, ret, raised, pushed, delivered, arpVars, extVars>>

\* net.c:228  end of list
SoftirqReturn ==
    /\ pc = "sirq_loop"
    /\ proto = NULL
    /\ pc' = "idle"
    /\ ret' = 0
    /\ UNCHANGED <<protocols, protos, call, proto, raised, walk, pushed, delivered, arpVars, extVars>>

-----------------------------------------------------------------------------
(* ARP: constants of arp.c and the wire format.                            *)

ARP_HRD_ETHER == 1
ARP_PRO_IP == 2048
ARP_OP_REQUEST == 1
ARP_OP_REPLY == 2
ARP_CACHE_STATE_FREE == 0
ARP_CACHE_STATE_INCOMPLETE == 1
ARP_CACHE_STATE_RESOLVED == 2
ARP_CACHE_STATE_STATIC == 3
ETHER_ADDR_LEN == 6
IP_ADDR_LEN == 4
ETHER_TYPE_ARP == 2054

\* Number of cache slots.  arp.c:22 has 32; the model keeps the table small
\* enough to fill it and to evict from it.
ARP_CACHE_SIZE == 2

\* arp.c:29-45  sizeof(struct arp_ether_ip): the 8-byte header and the four
\* address fields.
ArpMsgSize == 8 + 2 * ETHER_ADDR_LEN + 2 * IP_ADDR_LEN

\* Multi-byte fields are kept as they lie in memory, in network byte order;
\* ntoh16 and ntoh32 give the number those bytes stand for.
ntoh16(b) == b[1] * 256 + b[2]
ntoh32(b) == ((b[1] * 256 + b[2]) * 256 + b[3]) * 256 + b[4]
hton16(n) == <<n \div 256, n % 256>>

\* The same four bytes read least significant byte first.
LittleEndian32(b) == ((b[4] * 256 + b[3]) * 256 + b[2]) * 256 + b[1]

ZeroPA == <<0, 0, 0, 0>>
ZeroHA == <<0, 0, 0, 0, 0, 0>>
ZeroTime == [sec |-> 0, usec |-> 0]

\* Addresses and clock readings the environment chooses from.  Two of the
\* sender addresses are each other's byte reversal, and the two clock
\* readings are ordered differently by their seconds and their microseconds.
LocalPA == <<10, 0, 0, 2>>
SenderPAs == {<<10, 0, 0, 1>>, <<1, 0, 0, 10>>, <<10, 0, 0, 3>>}
TargetPAs == {LocalPA, <<10, 0, 0, 9>>}
HAs == {<<170, 170, 170, 170, 170, 170>>, <<2, 0, 0, 0, 0, 1>>}
DevHA == <<2, 0, 0, 0, 0, 254>>
Times == {[sec |-> 1, usec |-> 9], [sec |-> 2, usec |-> 3]}
OpCodes == {<<0, 1>>, <<0, 2>>, <<1, 0>>}

\* The devices a frame may arrive on: an Ethernet device that is up and has
\* an IP interface, one that has none, and one that is down.
NetDevices ==
    { [name |-> "net0", type |-> "ETHERNET", up |-> TRUE, mtu |-> 1500,
       addr |-> DevHA, hasip |-> TRUE, unicast |-> LocalPA],
      [name |-> "net1", type |-> "ETHERNET", up |-> TRUE, mtu |-> 1500,
       addr |-> DevHA, hasip |-> FALSE, unicast |-> ZeroPA],
      [name |-> "net2", type |-> "ETHERNET", up |-> FALSE, mtu |-> 1500,
       addr |-> DevHA, hasip |-> TRUE, unicast |-> LocalPA] }

\* The interfaces arp_resolve may be asked about.
Ifaces ==
    { [devtype |-> t, family |-> f] :
        t \in {"ETHERNET", "LOOPBACK"}, f \in {"IP", "IPV6"} }

\* Well-formed messages, and messages with one thing wrong each.
GoodMsgs ==
    { [hrd |-> hton16(ARP_HRD_ETHER), pro |-> hton16(ARP_PRO_IP),
       hln |-> ETHER_ADDR_LEN, pln |-> IP_ADDR_LEN,
       op |-> o, sha |-> s, spa |-> p, tha |-> ZeroHA, tpa |-> t] :
        o \in OpCodes, s \in HAs, p \in SenderPAs, t \in TargetPAs }

\* The requests for the local address: those offered with a short length too.
ShortMsgs == {g \in GoodMsgs : g.op = hton16(ARP_OP_REQUEST) /\ g.tpa = LocalPA}

BadMsgs ==
    UNION { { [m EXCEPT !.hrd = <<1, 0>>], [m EXCEPT !.hln = IP_ADDR_LEN],
              [m EXCEPT !.pro = <<0, 8>>], [m EXCEPT !.pln = ETHER_ADDR_LEN] } :
            m \in ShortMsgs }

FreeEntry == [state |-> ARP_CACHE_STATE_FREE, pa |-> ZeroPA, ha |-> ZeroHA,
              timestamp |-> ZeroTime]

NoMsg == [hrd |-> <<0, 0>>, pro |-> <<0, 0>>, hln |-> 0, pln |-> 0, op |-> <<0, 0>>,
          sha |-> ZeroHA, spa |-> ZeroPA, tha |-> ZeroHA, tpa |-> ZeroPA]

\* `locks`, `touched`, `evicted`, `inserted`, `now` and `result` are history:
\* how often the call took the mutex, whether it looked at the cache table,
\* the entry it evicted, whether it inserted, the clock reading of its
\* update, and how it ended.
NoArpCall ==
    [op |-> "none", msg |-> NoMsg, len |-> 0, dev |-> "", merge |-> FALSE,
     slot |-> NULL, evicted |-> FreeEntry, inserted |-> FALSE,
     locks |-> 0, touched |-> FALSE, result |-> "",
     iface |-> [devtype |-> "", family |-> ""], pa |-> ZeroPA,
     ha0 |-> ZeroHA, ha |-> ZeroHA, now |-> ZeroTime]

DeviceNamed(n) == CHOOSE d \in NetDevices : d.name = n

-----------------------------------------------------------------------------
(* The ARP cache, arp.c:106-230.  Each operation takes the table and gives *)
(* the table (or the slot) that results.                                   *)

\* timercmp(a, b, >)
TimerUsecOnly(a, b) == a.usec > b.usec
timercmp_gt(a, b) == IF a.sec = b.sec THEN a.usec > b.usec ELSE a.sec > b.sec

\* arp.c:106-122
arp_cache_delete(c, i) == [c EXCEPT ![i] = FreeEntry]

\* arp.c:130-142  the scan of arp_cache_alloc from slot i on, `oldest` being
\* the oldest entry seen so far (NULL: none yet).
RECURSIVE AllocScan(_, _, _)
AllocScan(c, i, oldest) ==
    IF i > ARP_CACHE_SIZE THEN [free |-> FALSE, slot |-> oldest]
    ELSE IF c[i].state = ARP_CACHE_STATE_FREE THEN [free |-> TRUE, slot |-> i]
    ELSE AllocScan(c, i + 1,
                   IF oldest = NULL \/ timercmp_gt(c[oldest].timestamp, c[i].timestamp)
                   THEN i ELSE oldest)

\* arp.c:124-147  the slot arp_cache_alloc returns and the table it leaves.
arp_cache_alloc(c) ==
    LET r == AllocScan(c, 1, NULL) IN
    [slot |-> r.slot, evicted |-> ~r.free,
     table |-> IF r.free THEN c ELSE arp_cache_delete(c, r.slot)]

\* arp.c:158-174  the scan of arp_cache_select from slot i on.
RECURSIVE SelectScan(_, _, _)
SelectScan(c, pa, i) ==
    IF i > ARP_CACHE_SIZE THEN NULL
    ELSE IF c[i].state # ARP_CACHE_STATE_FREE /\ ntoh32(c[i].pa) = ntoh32(pa) THEN i
    ELSE SelectScan(c, pa, i + 1)

RECURSIVE SelectScanMixed(_, _, _)
SelectScanMixed(c, pa, i) ==
    IF i > ARP_CACHE_SIZE THEN NULL
    ELSE IF c[i].state # ARP_CACHE_STATE_FREE /\ ntoh32(c[i].pa) = LittleEndian32(pa) THEN i
    ELSE SelectScanMixed(c, pa, i + 1)

\* arp.c:149-175
SelectMixedOrder(c, pa) == SelectScanMixed(c, pa, 1)
arp_cache_select(c, pa) == SelectScan(c, pa, 1)

\* arp.c:177-201  whether arp_cache_update found an entry, and the table it
\* leaves: the hardware address `ha` is only logged, never stored.
UpdateStoresHa(c, pa, ha, now) ==
    LET i == arp_cache_select(c, pa) IN
    [found |-> i # NULL,
     table |-> IF i = NULL THEN c
               ELSE [c EXCEPT ![i].state = ARP_CACHE_STATE_RESOLVED,
                              ![i].ha = SubSeq(ha, 1, ETHER_ADDR_LEN),
                              ![i].timestamp = now]]
arp_cache_update(c, pa, ha, now) ==
    LET i == arp_cache_select(c, pa) IN
    [found |-> i # NULL,
     table |-> IF i = NULL THEN c
               ELSE [c EXCEPT ![i].state = ARP_CACHE_STATE_RESOLVED,
                              ![i].timestamp = now]]

\* arp.c:222-225  the table after arp_cache_insert filled slot i.
StoreKeepsState(c, i, pa, ha, now) ==
    [c EXCEPT ![i].pa = pa, ![i].ha = SubSeq(ha, 1, ETHER_ADDR_LEN),
              ![i].timestamp = now]
arp_cache_store(c, i, pa, ha, now) ==
    [c EXCEPT ![i] = [state |-> ARP_CACHE_STATE_RESOLVED, pa |-> pa,
                      ha |-> SubSeq(ha, 1, ETHER_ADDR_LEN), timestamp |-> now]]

-----------------------------------------------------------------------------
(* arp_input, arp.c:256-318                                                *)

\* arp.c:264  the length test
TooShortByTwo(len) == len < ArpMsgSize - 1
TooShort(len) == len < ArpMsgSize
\* arp.c:277  the hardware address test
NotEthernet(msg) == ntoh16(msg.hrd) # ARP_HRD_ETHER \/ msg.hln # ETHER_ADDR_LEN
\* arp.c:284  the protocol address test
NotIp(msg) == ntoh16(msg.pro) # ARP_PRO_IP \/ msg.pln # IP_ADDR_LEN

\* net_device_get_iface(dev, NET_IFACE_FAMILY_IP) together with the test of
\* arp.c:302: the device has an IP interface whose unicast address is tpa.
ForUsAnyTarget(dev, tpa) == dev.hasip
ForUs(dev, tpa) == dev.hasip /\ dev.unicast = tpa

\* arp.c:232-254  the REPLY built by arp_reply.
ReplySwapped(dev, tha, tpa) ==
    [hrd |-> hton16(ARP_HRD_ETHER), pro |-> hton16(ARP_PRO_IP),
     hln |-> ETHER_ADDR_LEN, pln |-> IP_ADDR_LEN, op |-> hton16(ARP_OP_REPLY),
     sha |-> dev.addr, spa |-> tpa, tha |-> tha, tpa |-> dev.unicast]
ReplyMsg(dev, tha, tpa) ==
    [hrd |-> hton16(ARP_HRD_ETHER), pro |-> hton16(ARP_PRO_IP),
     hln |-> ETHER_ADDR_LEN, pln |-> IP_ADDR_LEN, op |-> hton16(ARP_OP_REPLY),
     sha |-> dev.addr, spa |-> dev.unicast, tha |-> tha, tpa |-> tpa]

\* What a driver's transmit callback may return.
DriverRets == {0, -1}

\* net.c:107-132  what net_device_output returns and what it hands to the
\* driver (nothing when the device is down or the frame is longer than the
\* MTU); r is what the driver's transmit callback returns when called.
OutputMtuOffByOne(dev, type, data, len, dst, r) ==
    IF ~dev.up \/ len > dev.mtu + 1 THEN [ret |-> -1, transmit |-> <<>>]
    ELSE [ret |-> IF r = -1 THEN -1 ELSE 0,
          transmit |-> <<[dev |-> dev.name, type |-> type, data |-> data,
                          len |-> len, dst |-> dst]>>]
net_device_output(dev, type, data, len, dst, r) ==
    IF ~dev.up THEN [ret |-> -1, transmit |-> <<>>]
    ELSE IF len > dev.mtu THEN [ret |-> -1, transmit |-> <<>>]
    ELSE [ret |-> IF r = -1 THEN -1 ELSE 0,
          transmit |-> <<[dev |-> dev.name, type |-> type, data |-> data,
                          len |-> len, dst |-> dst]>>]

\* arp.c:264-288  a malformed message is dropped before anything else.
ArpInputReject(msg, len, dev) ==
    /\ apc = "idle"
    /\ TooShort(len) \/ NotEthernet(msg) \/ NotIp(msg)
    /\ acall' = [NoArpCall EXCEPT !.op = "input", !.msg = msg, !.len = len,
                                  !.dev = dev.name, !.result = "rejected"]
    /\ apc' = "in_done"
    /\ UNCHANGED <<caches, mutex, txlog, netVars, extVars>>

\* arp.c:293-299  first critical section: update the sender's entry if any.
ArpInputUpdate(msg, len, dev, now) ==
    /\ apc = "idle"
    /\ ~(TooShort(len) \/ NotEthernet(msg) \/ NotIp(msg))
    /\ ~mutex
    /\ LET r == arp_cache_update(caches, msg.spa, msg.sha, now) IN
         /\ caches' = r.table
         /\ acall' = [NoArpCall EXCEPT !.op = "input", !.msg = msg, !.len = len,
                                       !.dev = dev.name, !.merge = r.found,
                                       !.locks = 1, !.touched = TRUE, !.now = now]
    /\ apc' = "in_merged"
    /\ UNCHANGED <<mutex, txlog, netVars, extVars>>

\* arp.c:301-302, 318  no IP interface, or the target is not its address.
ArpInputNotForUs ==
    /\ apc = "in_merged"
    /\ ~ForUs(DeviceNamed(acall.dev), acall.msg.tpa)
    /\ apc' = "in_done"
    /\ acall' = [acall EXCEPT !.result = "not for us"]
    /\ UNCHANGED <<caches, mutex, txlog, netVars, extVars>>

\* arp.c:304  the sender was merged: no insert.
ArpInputMerged ==
    /\ apc = "in_merged"
    /\ ForUs(DeviceNamed(acall.dev), acall.msg.tpa)
    /\ acall.merge
    /\ apc' = "in_reply"
    /\ UNCHANGED <<caches, mutex, acall, txlog, netVars, extVars>>

\* arp.c:306-307, 213  second critical section entered, arp_cache_alloc run.
ArpInputAlloc ==
    /\ apc = "in_merged"
    /\ ForUs(DeviceNamed(acall.dev), acall.msg.tpa)
    /\ ~acall.merge
    /\ ~mutex
    /\ mutex' = TRUE
    /\ LET r == arp_cache_alloc(caches) IN
         /\ caches' = r.table
         /\ acall' = [acall EXCEPT !.slot = r.slot, !.locks = @ + 1,
                                   !.evicted = IF r.evicted THEN caches[r.slot]
                                               ELSE FreeEntry]
    /\ apc' = "in_alloc"
    /\ UNCHANGED <<txlog, netVars, extVars>>

\* arp.c:222-229, 308  the entry is written, the mutex released.
ArpInputStore(now) ==
    /\ apc = "in_alloc"
    /\ caches' = arp_cache_store(caches, acall.slot, acall.msg.spa, acall.msg.sha, now)
    /\ acall' = [acall EXCEPT !.inserted = TRUE]
    /\ mutex' = FALSE
    /\ apc' = "in_reply"
    /\ UNCHANGED <<txlog, netVars, extVars>>

\* arp.c:313-316  a REQUEST is answered.
ArpInputReply ==
    /\ apc = "in_reply"
    /\ ntoh16(acall.msg.op) = ARP_OP_REQUEST
    /\ \E r \in DriverRets :
         LET dev == DeviceNamed(acall.dev) IN
         txlog' = txlog \o net_device_output(dev, ETHER_TYPE_ARP,
                                             ReplyMsg(dev, acall.msg.sha, acall.msg.spa),
                                             ArpMsgSize, acall.msg.sha, r).transmit
    /\ apc' = "in_done"
    /\ acall' = [acall EXCEPT !.result = "replied"]
    /\ UNCHANGED <<caches, mutex, netVars, extVars>>

\* arp.c:313, 317  any other opcode is not answered.
ArpInputNoReply ==
    /\ apc = "in_reply"
    /\ ntoh16(acall.msg.op) # ARP_OP_REQUEST
    /\ apc' = "in_done"
    /\ acall' = [acall EXCEPT !.result = "no reply"]
    /\ UNCHANGED <<caches, mutex, txlog, netVars, extVars>>

\* arp.c:267, 280, 287, 318  arp_input returns; its locals are gone.
ArpInputReturn ==
    /\ apc = "in_done"
    /\ apc' = "idle"
    /\ acall' = NoArpCall
    /\ txlog' = <<>>
    /\ UNCHANGED <<caches, mutex, netVars, extVars>>

-----------------------------------------------------------------------------
(* arp_resolve, arp.c:320-356                                              *)

\* What the caller's buffer holds before the call.
CallerBuf == <<255, 255, 255, 255, 255, 255>>

\* arp.c:326
NotEthernetDevice(iface) == iface.devtype # "ETHERNET"
\* arp.c:332
FamilyUnchecked(iface) == FALSE
NotIpFamily(iface) == iface.family # "IP"

\* arp.c:326-336  unsupported device type or address family.
ArpResolveUnsupported(iface, pa) ==
    /\ apc = "idle"
    /\ NotEthernetDevice(iface) \/ NotIpFamily(iface)
    /\ acall' = [NoArpCall EXCEPT !.op = "resolve", !.iface = iface, !.pa = pa,
                                  !.ha0 = CallerBuf, !.ha = CallerBuf,
                                  !.result = "ARP_RESOLVE_ERROR"]
    /\ apc' = "res_done"
    /\ UNCHANGED <<caches, mutex, txlog, netVars, extVars>>

\* arp.c:338-355  the lookup under the mutex.
ArpResolveLookup(iface, pa) ==
    /\ apc = "idle"
    /\ ~(NotEthernetDevice(iface) \/ NotIpFamily(iface))
    /\ ~mutex
    /\ LET i == arp_cache_select(caches, pa) IN
         acall' = [NoArpCall EXCEPT
                      !.op = "resolve", !.iface = iface, !.pa = pa,
                      !.ha0 = CallerBuf,
                      !.locks = 1, !.touched = TRUE, !.slot = i,
                      !.ha = IF i = NULL THEN CallerBuf
                             ELSE SubSeq(caches[i].ha, 1, ETHER_ADDR_LEN),
                      !.result = IF i = NULL THEN "ARP_RESOLVE_ERROR"
                                 ELSE "ARP_RESOLVE_FOUND"]
    /\ apc' = "res_done"
    /\ UNCHANGED <<caches, mutex, txlog, netVars, extVars>>

\* arp.c:329, 335, 346, 355  arp_resolve returns.
ArpResolveReturn ==
    /\ apc = "res_done"
    /\ apc' = "idle"
    /\ acall' = NoArpCall
    /\ UNCHANGED <<caches, mutex, txlog, netVars, extVars>>

-----------------------------------------------------------------------------
(* The device registry, net.c:46-132 and 231-262.                          *)

\* At most this many devices are registered.
MaxDevices == 2

\* MTUs of the registered devices and frame lengths around them.
Mtus == {2, 3}
LensAround(mtu) == {mtu - 1, mtu, mtu + 1}
FrameOfLen(len) == [k \in 1..len |-> 7]

NoDevCall == [op |-> "none", dev |-> NULL, len |-> 0, intr |-> 0, drv |-> 0,
              ret |-> 0, opened |-> <<>>, closed |-> <<>>, transmit |-> <<>>]

\* net.c:52  the link the new device gets: the old head of the list.
DevLinkNone(head) == NULL
DevLink(head) == head

\* net.c:46-57  net_device_register; the device's MTU was set by its driver.
DevRegister(mtu) ==
    /\ phase = "setup"
    /\ Len(devs) < MaxDevices
    /\ devs' = Append(devs, [index |-> index, name |-> "net" \o ToString(index),
                            next |-> DevLink(devices), up |-> FALSE, mtu |-> mtu])
    /\ devices' = Len(devs) + 1
    /\ index' = index + 1
    /\ dcall' = [NoDevCall EXCEPT !.op = "register", !.dev = Len(devs) + 1]
    /\ UNCHANGED <<phase, netVars, arpVars, concVars, irqVars>>

\* net.c:59-81  the device table after net_device_open(p); r is what the
\* driver's open callback returns (a driver without one counts as 0).
net_device_open(d, p, r) ==
    IF d[p].up THEN d
    ELSE IF r = -1 THEN d
    ELSE [d EXCEPT ![p].up = TRUE]

\* net.c:83-105  the device table after net_device_close(p).
net_device_close(d, p, r) ==
    IF ~d[p].up THEN d
    ELSE IF r = -1 THEN d
    ELSE [d EXCEPT ![p].up = FALSE]

\* net.c:242-245  the loop of net_run from record p on: the table it leaves
\* and the indexes of the devices it called net_device_open on, in order.
RECURSIVE OpenAll(_, _, _, _)
OpenAll(d, p, f, log) ==
    IF p = NULL THEN [devs |-> d, log |-> log]
    ELSE OpenAll(net_device_open(d, p, f[p]), d[p].next, f, Append(log, d[p].index))

\* net.c:256-259  the loop of net_shutdown.
RECURSIVE CloseAll(_, _, _, _)
CloseAll(d, p, f, log) ==
    IF p = NULL THEN [devs |-> d, log |-> log]
    ELSE CloseAll(net_device_close(d, p, f[p]), d[p].next, f, Append(log, d[p].index))

\* net.c:231-249  net_run; intr is what intr_run returns and f what each
\* driver's open callback returns.
NetRun(intr, f) ==
    /\ phase = "setup"
    /\ IF intr = -1
       THEN /\ dcall' = [NoDevCall EXCEPT !.op = "run", !.intr = intr, !.ret = -1]
            /\ UNCHANGED <<devs, phase>>
       ELSE LET r == OpenAll(devs, devices, f, <<>>) IN
            /\ devs' = r.devs
            /\ phase' = "running"
            /\ dcall' = [NoDevCall EXCEPT !.op = "run", !.intr = intr, !.ret = 0,
                                          !.opened = r.log]
    /\ UNCHANGED <<devices, index, netVars, arpVars, concVars, irqVars>>

\* net.c:251-262  net_shutdown.
NetShutdown(f) ==
    /\ phase = "running"
    /\ LET r == CloseAll(devs, devices, f, <<>>) IN
         /\ devs' = r.devs
         /\ dcall' = [NoDevCall EXCEPT !.op = "shutdown", !.closed = r.log]
    /\ phase' = "down"
    /\ UNCHANGED <<devices, index, netVars, arpVars, concVars, irqVars>>

\* net.c:107-132  net_device_output on a registered device.
DevOutput(p, type, data, len, dst, r) ==
    /\ p \in 1..Len(devs)
    /\ LET o == net_device_output(devs[p], type, data, len, dst, r) IN
         dcall' = [NoDevCall EXCEPT !.op = "output", !.dev = p, !.len = len,
                                    !.drv = r, !.ret = o.ret, !.transmit = o.transmit]
    /\ UNCHANGED <<devices, devs, index, phase, netVars, arpVars, concVars, irqVars>>

-----------------------------------------------------------------------------
(* arp_input run by two callers at once, arp.c:256-318.  What a caller     *)
(* does while it holds the mutex is one step; between its two critical     *)
(* sections the other caller may run.                                      *)

Threads == {1, 2}

\* The frames the two callers are given, all arriving on net0.
ConcMsgs ==
    {g \in GoodMsgs \cup BadMsgs :
        /\ g.spa = <<10, 0, 0, 1>>
        /\ g.op \in {hton16(ARP_OP_REQUEST), hton16(ARP_OP_REPLY)}}

NoThreadCall == [msg |-> NoMsg, len |-> 0, merge |-> FALSE, inserted |-> FALSE,
                 tx |-> <<>>, result |-> ""]

\* arp.c:264-288
ConcInputReject(t, msg, len) ==
    /\ tpc[t] = "idle"
    /\ TooShort(len) \/ NotEthernet(msg) \/ NotIp(msg)
    /\ tcall' = [tcall EXCEPT ![t] = [NoThreadCall EXCEPT !.msg = msg, !.len = len,
                                                         !.result = "rejected"]]
    /\ tpc' = [tpc EXCEPT ![t] = "in_done"]
    /\ UNCHANGED <<arpVars, netVars, devVars, irqVars>>

\* arp.c:293-299  lock, arp_cache_update, unlock.
ConcInputUpdate(t, msg, len, now) ==
    /\ tpc[t] = "idle"
    /\ ~(TooShort(len) \/ NotEthernet(msg) \/ NotIp(msg))
    /\ ~mutex
    /\ LET r == arp_cache_update(caches, msg.spa, msg.sha, now) IN
         /\ caches' = r.table
         /\ tcall' = [tcall EXCEPT ![t] = [NoThreadCall EXCEPT !.msg = msg, !.len = len,
                                                              !.merge = r.found]]
    /\ tpc' = [tpc EXCEPT ![t] = "in_merged"]
    /\ UNCHANGED <<mutex, apc, acall, txlog, netVars, devVars, irqVars>>

\* arp.c:313-316  what the call transmits once the cache is dealt with.
ConcReply(c, r) ==
    LET dev == DeviceNamed("net0") IN
    IF ntoh16(c.msg.op) = ARP_OP_REQUEST
    THEN net_device_output(dev, ETHER_TYPE_ARP, ReplyMsg(dev, c.msg.sha, c.msg.spa),
                           ArpMsgSize, c.msg.sha, r).transmit
    ELSE <<>>

\* arp.c:301-317  the sender was not merged: lock, arp_cache_insert,
\* unlock; then the reply.
ConcInputInsert(t, now) ==
    /\ tpc[t] = "in_merged"
    /\ ForUs(DeviceNamed("net0"), tcall[t].msg.tpa)
    /\ ~tcall[t].merge
    /\ ~mutex
    /\ LET a == arp_cache_alloc(caches) IN
         caches' = arp_cache_store(a.table, a.slot, tcall[t].msg.spa, tcall[t].msg.sha, now)
    /\ \E r \in DriverRets :
         tcall' = [tcall EXCEPT ![t].inserted = TRUE, ![t].tx = ConcReply(tcall[t], r),
                                ![t].result = "inserted"]
    /\ tpc' = [tpc EXCEPT ![t] = "in_done"]
    /\ UNCHANGED <<mutex, apc, acall, txlog, netVars, devVars, irqVars>>

\* arp.c:301-317  the sender was merged: no insert, only the reply.
ConcInputMerged(t) ==
    /\ tpc[t] = "in_merged"
    /\ ForUs(DeviceNamed("net0"), tcall[t].msg.tpa)
    /\ tcall[t].merge
    /\ \E r \in DriverRets :
         tcall' = [tcall EXCEPT ![t].tx = ConcReply(tcall[t], r), ![t].result = "merged"]
    /\ tpc' = [tpc EXCEPT ![t] = "in_done"]
    /\ UNCHANGED <<arpVars, netVars, devVars, irqVars>>

\* arp.c:301-302, 318
ConcInputNotForUs(t) ==
    /\ tpc[t] = "in_merged"
    /\ ~ForUs(DeviceNamed("net0"), tcall[t].msg.tpa)
    /\ tcall' = [tcall EXCEPT ![t].result = "not for us"]
    /\ tpc' = [tpc EXCEPT ![t] = "in_done"]
    /\ UNCHANGED <<arpVars, netVars, devVars, irqVars>>

\* arp.c:318
ConcInputReturn(t) ==
    /\ tpc[t] = "in_done"
    /\ tcall' = [tcall EXCEPT ![t] = NoThreadCall]
    /\ tpc' = [tpc EXCEPT ![t] = "idle"]
    /\ UNCHANGED <<arpVars, netVars, devVars, irqVars>>

-----------------------------------------------------------------------------
(* net_input_handler and net_softirq_handler in two contexts: frames are   *)
(* pushed by the caller of net_input_handler while the interrupt context   *)
(* drains the queues, net.c:166-229.                                        *)

\* net.c:191  intr_raise_irq(SIGUSR1): whether a software interrupt is
\* pending afterwards, given whether one was pending before.
RaiseLost(pending) == pending
InputRaise(pending) == TRUE

\* net.c:173-186  match found, allocation succeeds: copy and push.
IrqInputPush ==
    /\ pc = "in_scan"
    /\ proto # NULL
    /\ TypeMatches(call.type, proto)
    /\ LET e == EntryOf(call.data, call.len, call.dev)
           q == PushTarget(proto) IN
         /\ protos' = [protos EXCEPT ![q].queue = queue_push(@, e)]
         /\ pushed' = Append(pushed, [type |-> call.type, queue |-> q,
                                      dev |-> call.dev, len |-> call.len,
                                      data |-> call.data])
    /\ pc' = "in_raise"
    /\ UNCHANGED <<protocols, call, proto, ret, raised, walk, delivered,
                   arpVars, devVars, concVars, irqVars>>

\* net.c:191-194  raise the software interrupt and return.
IrqInputRaise ==
    /\ pc = "in_raise"
    /\ raised' = raised + 1
    /\ irq' = InputRaise(irq)
    /\ pc' = "idle"
    /\ ret' = 0
    /\ UNCHANGED <<protocols, protos, call, proto, walk, pushed, delivered,
                   cpc, cproto, arpVars, devVars, concVars>>

\* The interrupt subsystem delivers the pending software interrupt: it
\* calls net_softirq_handler, which is not re-entered while it runs.
IrqDeliver ==
    /\ irq
    /\ cpc = "idle"
    /\ irq' = FALSE
    /\ cpc' = "sirq_loop"
    /\ cproto' = protocols
    /\ UNCHANGED <<netVars, arpVars, devVars, concVars>>

\* net.c:209, 228  the loop test: at the end of the list the handler returns.
IrqSoftirqTest ==
    /\ cpc = "sirq_loop"
    /\ cpc' = IF cproto = NULL THEN "idle" ELSE "sirq_pop"
    /\ UNCHANGED <<irq, cproto, netVars, arpVars, devVars, concVars>>

\* net.c:213-224  pop one entry, hand it to the handler, free it.
IrqSoftirqPop ==
    /\ cpc = "sirq_pop"
    /\ protos[cproto].queue # <<>>
    /\ LET e == queue_front(protos[cproto].queue) IN
         /\ delivered' = delivered \o Invocation(cproto, e)
         /\ protos' = [protos EXCEPT ![cproto].queue = queue_rest(@)]
    /\ UNCHANGED <<protocols, pc, call, proto, ret, raised, walk, pushed,
                   arpVars, devVars, concVars, irqVars>>

\* net.c:214-217, 209  the queue is empty: proto = proto->next
IrqSoftirqNext ==
    /\ cpc = "sirq_pop"
    /\ protos[cproto].queue = <<>>
    /\ cproto' = protos[cproto].next
    /\ cpc' = "sirq_loop"
    /\ UNCHANGED <<irq, netVars, arpVars, devVars, concVars>>

-----------------------------------------------------------------------------
(* The specifications.                                                     *)

InitNet ==
    /\ protocols = NULL
    /\ protos = <<>>
    /\ pc = "idle"
    /\ call = NoCall
    /\ proto = NULL
    /\ ret = 0
    /\ raised = 0
    /\ walk = <<>>
    /\ pushed = <<>>
    /\ delivered = <<>>

InitArp ==
    /\ caches = [i \in 1..ARP_CACHE_SIZE |-> FreeEntry]
    /\ mutex = FALSE
    /\ apc = "idle"
    /\ acall = NoArpCall
    /\ txlog = <<>>

InitDev ==
    /\ devices = NULL
    /\ devs = <<>>
    /\ index = 0
    /\ phase = "setup"
    /\ dcall = NoDevCall

InitConc ==
    /\ tpc = [t \in Threads |-> "idle"]
    /\ tcall = [t \in Threads |-> NoThreadCall]

InitIrq ==
    /\ irq = FALSE
    /\ cpc = "idle"
    /\ cproto = NULL

Init == InitNet /\ InitArp /\ InitDev /\ InitConc /\ InitIrq

\* The steps a running call takes by itself.
NetStep ==
    \/ RegisterDup
    \/ RegisterNext
    \/ RegisterLink
    \/ RegisterAllocFail
    \/ InputPush
    \/ InputAllocFail
    \/ InputNext
    \/ InputUnsupported
    \/ SoftirqDeliver
    \/ SoftirqNext
    \/ SoftirqReturn

\* The calls the environment makes.
NetCall ==
    \/ \E type \in Types, handler \in Handlers : RegisterCall(type, handler)
    \/ \E type \in Types, data \in Payloads, dev \in Devices : InputCall(type, data, dev)
    \/ SoftirqCall

Next == NetCall \/ NetStep

Spec == Init /\ [][Next]_vars

\* A running C function keeps executing: its steps are weakly fair.
FairSpec == Spec /\ WF_vars(NetStep)

\* The steps a running arp_input or arp_resolve takes by itself.
ArpStep ==
    \/ ArpInputNotForUs
    \/ ArpInputMerged
    \/ ArpInputAlloc
    \/ \E now \in Times : ArpInputStore(now)
    \/ ArpInputReply
    \/ ArpInputNoReply
    \/ ArpInputReturn
    \/ ArpResolveReturn

\* The lengths a message is handed in with: the full one, and for some one
\* byte less.
LengthsOf(msg) == {ArpMsgSize} \cup (IF msg \in ShortMsgs THEN {ArpMsgSize - 1} ELSE {})

\* The calls, made one after another: arp_input by the dispatcher with a
\* frame of full or of short length, arp_resolve by the output path.
ArpCall ==
    \/ \E msg \in GoodMsgs \cup BadMsgs, dev \in NetDevices :
           \E len \in LengthsOf(msg) : ArpInputReject(msg, len, dev)
    \/ \E msg \in GoodMsgs \cup BadMsgs, dev \in NetDevices, now \in Times :
           \E len \in LengthsOf(msg) : ArpInputUpdate(msg, len, dev, now)
    \/ \E iface \in Ifaces, pa \in SenderPAs : ArpResolveUnsupported(iface, pa)
    \/ \E iface \in Ifaces, pa \in SenderPAs : ArpResolveLookup(iface, pa)

NextArp == ArpCall \/ ArpStep

SpecArp == Init /\ [][NextArp]_vars

\* The device registry: devices are registered, net_run brings them up,
\* frames are sent, net_shutdown closes them.
NextDev ==
    \/ \E mtu \in Mtus : DevRegister(mtu)
    \/ \E intr \in {0, -1}, f \in [1..Len(devs) -> {0, -1}] : NetRun(intr, f)
    \/ \E f \in [1..Len(devs) -> {0, -1}] : NetShutdown(f)
    \/ \E p \in 1..Len(devs), r \in DriverRets :
           \E len \in LensAround(devs[p].mtu) :
               \E type \in Types : DevOutput(p, type, FrameOfLen(len), len, NULL, r)

SpecDev == Init /\ [][NextDev]_vars

\* Two callers of arp_input, interleaved at the mutex.
NextArpConc ==
    \E t \in Threads :
        \/ \E msg \in ConcMsgs : \E len \in LengthsOf(msg) : ConcInputReject(t, msg, len)
        \/ \E msg \in ConcMsgs, now \in Times :
               \E len \in LengthsOf(msg) : ConcInputUpdate(t, msg, len, now)
        \/ \E now \in Times : ConcInputInsert(t, now)
        \/ ConcInputMerged(t)
        \/ ConcInputNotForUs(t)
        \/ ConcInputReturn(t)

SpecArpConc == Init /\ [][NextArpConc]_vars

\* The handler each protocol registers for its type (ip_init, arp_init).
HandlerOf(type) == IF type = ETHER_TYPE_ARP THEN "arp_input" ELSE "ip_input"

\* Protocols are registered during start-up; then frames come in on net0
\* while the interrupt context drains the queues.
IrqStartup ==
    /\ call.op \in {"none", "register"}
    /\ \/ \E type \in Types : RegisterCall(type, HandlerOf(type))
       \/ RegisterDup
       \/ RegisterNext
       \/ RegisterLink
       \/ RegisterAllocFail

IrqProducer ==
    \/ \E type \in Types, data \in Payloads : InputCall(type, data, "net0")
    \/ InputNext
    \/ InputUnsupported
    \/ InputAllocFail
    \/ IrqInputPush
    \/ IrqInputRaise

IrqConsumer ==
    \/ IrqDeliver
    \/ IrqSoftirqTest
    \/ IrqSoftirqPop
    \/ IrqSoftirqNext

NextIrq == IrqStartup \/ IrqProducer \/ IrqConsumer

SpecIrq == Init /\ [][NextIrq]_vars

\* The interrupt is delivered and its handler keeps running; the caller of
\* net_input_handler gets from its push to its raise.
FairSpecIrq == SpecIrq /\ WF_vars(IrqConsumer) /\ WF_vars(IrqInputRaise)

-----------------------------------------------------------------------------
(* Properties of the dispatcher.                                           *)

\* What the caller handed in with the pushes made for `type`, in order.
PushedFor(type) ==
    LET sel == SelectSeq(pushed, LAMBDA x : x.type = type) IN
    [k \in 1..Len(sel) |-> [dev |-> sel[k].dev, len |-> sel[k].len, data |-> sel[k].data]]

\* What the handler of record i was invoked with, in order.
DeliveredTo(i) ==
    LET sel == SelectSeq(delivered, LAMBDA x : x.proto = i /\ x.handler = protos[i].handler) IN
    [k \in 1..Len(sel) |-> [dev |-> sel[k].dev, len |-> sel[k].len, data |-> sel[k].data]]

\* The frames pushed for a registered type are, in push order, exactly those
\* its handler was already invoked with followed by those still queued for it.
FifoConservation ==
    \A i \in 1..Len(protos) :
        PushedFor(protos[i].type) = DeliveredTo(i) \o protos[i].queue

\* C1: the frames pushed for a registered type are handed to that type's
\* handler in push order, each once, with their own data, length and device;
\* a softirq invocation hands over everything that was pushed before it.
C1_FifoExactlyOnce ==
    /\ []FifoConservation
    /\ (pc = "sirq_loop") ~> (Len(delivered) = Len(pushed))

C1_Witness ==
    /\ call.op = "softirq"
    /\ Len(pushed) = 2
    /\ Len(delivered) = 2
    /\ delivered[1].data # delivered[2].data
    /\ delivered[1].dev # delivered[2].dev

C3_SoftirqVisitsEachOnce ==
    call.op = "softirq" => NoRepeat(walk)

\* C4: registering a type that is already registered fails with -1 and
\* changes neither the list nor any record (handler, queue) in it.
C4_DuplicateRejected ==
    /\ [][(pc = "reg_scan" /\ call.known) =>
            /\ protocols' = protocols
            /\ protos' = protos
            /\ (pc' = "idle" => ret' = -1)]_vars
    /\ (pc = "reg_scan" /\ call.known) ~> (pc = "idle" /\ ret = -1)

C4_Witness ==
    /\ pc = "idle"
    /\ call.op = "register"
    /\ call.known
    /\ ret = -1
    /\ protos[protocols].queue # <<>>

\* The types met on the list, head first.
ListTypes ==
    LET ch == Chain(protocols, Len(protos) + 1) IN
    [k \in 1..Len(ch) |-> protos[ch[k]].type]

\* C5: after registrations of distinct types the list is a finite chain
\* ending in NULL that holds every registered type once, newest first.
C5_ListIsChain ==
    /\ ListEndsInNull
    /\ \A i \in 1..Len(protos) :
           Cardinality({k \in 1..Len(ListTypes) : ListTypes[k] = protos[i].type}) = 1
    /\ (protos # <<>> => protocols = Len(protos))
    /\ (call.op = "register" /\ ~call.known) => NoRepeat(walk)

\* C6: an input call for a type nobody registered ends, returns 0, pushes
\* nothing and raises nothing.
C6_UnknownTypeDropped ==
    (call.op = "input" /\ ~call.known) =>
        /\ NoRepeat(walk)
        /\ (pc = "idle" => ret = 0)
        /\ Len(pushed) = call.npushed
        /\ raised = call.nraised

-----------------------------------------------------------------------------
(* Properties of the ARP cache and of arp_resolve.                         *)

NonFree(e) == e.state # ARP_CACHE_STATE_FREE
Full(c) == \A i \in 1..ARP_CACHE_SIZE : NonFree(c[i])

\* The step in which arp_cache_alloc evicts, and the one in which
\* arp_cache_insert then fills the slot.
EvictStep == apc = "in_merged" /\ apc' = "in_alloc" /\ Full(caches)
StoreStep == apc = "in_alloc" /\ apc' = "in_reply"

\* Earlier-than on clock readings.
TimevalLess(a, b) == a.sec < b.sec \/ (a.sec = b.sec /\ a.usec < b.usec)

\* Slot v holds the smallest timestamp of the table, and no lower slot
\* holds the same one.
OldestFirst(c, v) ==
    /\ \A j \in 1..ARP_CACHE_SIZE : ~TimevalLess(c[j].timestamp, c[v].timestamp)
    /\ \A j \in 1..(v - 1) : c[j].timestamp # c[v].timestamp

\* C7: right after arp_cache_insert(pa, ha), arp_cache_select(pa) gives an
\* entry holding pa and ha in state RESOLVED; right after arp_cache_delete of
\* the entry selected for an address, arp_cache_select of it finds nothing.
C7_InsertSelectDelete ==
    /\ [](acall.inserted =>
            LET i == arp_cache_select(caches, acall.msg.spa) IN
            /\ i # NULL
            /\ caches[i].pa = acall.msg.spa
            /\ caches[i].ha = acall.msg.sha
            /\ caches[i].state = ARP_CACHE_STATE_RESOLVED)
    /\ [][EvictStep =>
            /\ arp_cache_select(caches, acall'.evicted.pa) = acall'.slot
            /\ arp_cache_select(caches', acall'.evicted.pa) = NULL]_vars

C7_Witness ==
    /\ apc = "in_reply"
    /\ acall.inserted
    /\ acall.evicted # FreeEntry
    /\ acall.slot = 1

\* C8: with every slot in use, an insert evicts the entry with the smallest
\* timestamp (the lowest slot among equals), leaves all other entries as
\* they are, puts the new pair into the evicted slot, and afterwards the
\* evicted address is not found.
C8_EvictsOldest ==
    /\ [][EvictStep =>
            LET v == acall'.slot IN
            /\ OldestFirst(caches, v)
            /\ acall'.evicted = caches[v]
            /\ caches' = [caches EXCEPT ![v] = FreeEntry]]_vars
    /\ [][(StoreStep /\ acall.evicted # FreeEntry) =>
            /\ \A j \in 1..ARP_CACHE_SIZE : j # acall.slot => caches'[j] = caches[j]
            /\ caches'[acall.slot].pa = acall.msg.spa
            /\ caches'[acall.slot].ha = acall.msg.sha
            /\ NonFree(caches'[acall.slot])
            /\ arp_cache_select(caches', acall.evicted.pa) = NULL]_vars

C8_Witness ==
    /\ apc = "in_reply"
    /\ acall.inserted
    /\ acall.evicted # FreeEntry
    /\ acall.slot = ARP_CACHE_SIZE
    /\ \A j \in 1..ARP_CACHE_SIZE : NonFree(caches[j])

\* C9: no two entries in use hold the same protocol address.
C9_UniqueProtocolAddress ==
    \A i, j \in 1..ARP_CACHE_SIZE :
        (i # j /\ NonFree(caches[i]) /\ NonFree(caches[j])) => caches[i].pa # caches[j].pa

C9_Witness ==
    /\ apc = "in_done"
    /\ acall.merge
    /\ Full(caches)

Unsupported(iface) == iface.devtype # "ETHERNET" \/ iface.family # "IP"

\* C10: arp_resolve on an interface whose device is not Ethernet or whose
\* family is not IP fails without taking the mutex and without touching the
\* cache or the caller's buffer.
C10_UnsupportedResolve ==
    /\ []((apc = "res_done" /\ Unsupported(acall.iface)) =>
            /\ acall.result = "ARP_RESOLVE_ERROR"
            /\ acall.locks = 0
            /\ ~acall.touched
            /\ acall.ha = acall.ha0)
    /\ [][(apc = "idle" /\ apc' = "res_done" /\ Unsupported(acall'.iface)) =>
            (caches' = caches /\ mutex' = mutex)]_vars

C10_Witness ==
    /\ apc = "res_done"
    /\ acall.iface.devtype = "ETHERNET"
    /\ acall.iface.family # "IP"
    /\ acall.result = "ARP_RESOLVE_ERROR"
    /\ arp_cache_select(caches, acall.pa) # NULL

-----------------------------------------------------------------------------
(* Properties of arp_input.                                                *)

\* A frame arp_input has to refuse: shorter than the 28 bytes of an
\* Ethernet/IPv4 ARP message, or not Ethernet with 6-byte addresses, or not
\* IP with 4-byte addresses.
Malformed(msg, len) ==
    \/ len < 28
    \/ msg.hrd # <<0, 1>> \/ msg.hln # 6
    \/ msg.pro # <<8, 0>> \/ msg.pln # 4

\* The frame is addressed to the IP interface of the device it came in on.
Targeted(c) ==
    LET dev == DeviceNamed(c.dev) IN dev.hasip /\ c.msg.tpa = dev.unicast

\* The protocol addresses held by entries in use.
KnownPAs(c) == {c[i].pa : i \in {j \in 1..ARP_CACHE_SIZE : NonFree(c[j])}}

\* C11: arp_resolve of an address no entry holds ends with not-found; and
\* once arp_input has processed a well-formed frame addressed to the local
\* unicast address, the cache answers the frame's sender protocol address
\* with exactly the frame's sender hardware address.
C11_ResolveReturnsSender ==
    /\ (apc = "res_done" /\ ~Unsupported(acall.iface) /\ acall.pa \notin KnownPAs(caches))
           => acall.result = "ARP_RESOLVE_ERROR"
    /\ (apc = "in_done" /\ ~Malformed(acall.msg, acall.len) /\ Targeted(acall))
           => LET i == arp_cache_select(caches, acall.msg.spa) IN
              /\ i # NULL
              /\ SubSeq(caches[i].ha, 1, ETHER_ADDR_LEN) = acall.msg.sha

\* C12: a well-formed REQUEST addressed to the unicast address of the IP
\* interface of a device that is up is answered with exactly one frame handed
\* to net_device_output: an Ethernet/IP REPLY from the device's hardware
\* address and the interface's unicast address to the sender of the request.
C12_RequestAnswered ==
    (/\ apc = "in_done"
     /\ ~Malformed(acall.msg, acall.len)
     /\ acall.msg.op = <<0, 1>>
     /\ Targeted(acall)
     /\ DeviceNamed(acall.dev).up)
    => LET dev == DeviceNamed(acall.dev) IN
       txlog = << [dev |-> acall.dev, type |-> 2054, len |-> 28, dst |-> acall.msg.sha,
                   data |-> [hrd |-> <<0, 1>>, pro |-> <<8, 0>>, hln |-> 6, pln |-> 4,
                             op |-> <<0, 2>>, sha |-> dev.addr, spa |-> dev.unicast,
                             tha |-> acall.msg.sha, tpa |-> acall.msg.spa]] >>

C12_Witness ==
    /\ apc = "in_done"
    /\ acall.result = "replied"
    /\ acall.dev = "net0"
    /\ acall.inserted
    /\ Len(txlog) = 1
    /\ txlog[1].data.tpa # txlog[1].data.spa

\* C13: arp_input transmits nothing for a frame whose opcode is not REQUEST;
\* for a frame not addressed to the receiving interface's unicast address,
\* or received on a device without IP interface, it transmits nothing and
\* no protocol address becomes known that was not known before.
C13_NoReplyNoInsert ==
    /\ [][(acall'.op = "input" /\ acall'.msg.op # <<0, 1>>) => txlog' = <<>>]_vars
    /\ [][(acall'.op = "input" /\ ~Targeted(acall')) =>
            /\ txlog' = <<>>
            /\ ~acall'.inserted
            /\ KnownPAs(caches') \subseteq KnownPAs(caches)]_vars

C13_Witness ==
    /\ apc = "in_done"
    /\ acall.result = "not for us"
    /\ acall.msg.op = <<0, 1>>
    /\ DeviceNamed(acall.dev).hasip
    /\ ~acall.merge
    /\ KnownPAs(caches) # {}

\* C15: a malformed frame makes arp_input return at once: no cache entry
\* changes, the mutex is not taken, nothing is transmitted.
C15_MalformedDropped ==
    [][(apc = "idle" /\ acall'.op = "input" /\ Malformed(acall'.msg, acall'.len)) =>
            /\ apc' = "in_done"
            /\ caches' = caches
            /\ mutex' = mutex
            /\ acall'.locks = 0
            /\ ~acall'.touched
            /\ txlog' = <<>>]_vars

C15_Witness ==
    /\ apc = "in_done"
    /\ acall.result = "rejected"
    /\ acall.len = 27
    /\ acall.msg.spa \in KnownPAs(caches)

\* The step in which arp_input runs arp_cache_update.
UpdateStep == apc = "idle" /\ apc' = "in_merged"

\* C18: arp_cache_update(pa, ha) never inserts.  When no entry in use holds
\* pa it reports not-found and leaves the cache as it is; when one does, it
\* sets that entry's state to RESOLVED and its timestamp to the clock
\* reading, and leaves the entry's addresses and all other entries alone.
C18_UpdateFrame ==
    [][UpdateStep =>
         LET hit == {i \in 1..ARP_CACHE_SIZE :
                        NonFree(caches[i]) /\ caches[i].pa = acall'.msg.spa} IN
         IF hit = {} THEN ~acall'.merge /\ caches' = caches
         ELSE /\ acall'.merge
              /\ \E i \in hit :
                    caches' = [caches EXCEPT
                                  ![i] = [state |-> 2, pa |-> caches[i].pa,
                                          ha |-> caches[i].ha,
                                          timestamp |-> acall'.now]]]_vars

C18_Witness ==
    /\ apc = "in_merged"
    /\ acall.merge
    /\ \E i \in 1..ARP_CACHE_SIZE :
          /\ caches[i].pa = acall.msg.spa
          /\ caches[i].ha # acall.msg.sha
          /\ caches[i].timestamp = acall.now
          /\ caches[i].timestamp.sec = 1
    /\ Full(caches)

-----------------------------------------------------------------------------
(* Properties of the device registry.                                      *)

\* C14: net_device_output calls the driver's transmit callback exactly when
\* the device is up and the frame is no longer than the MTU; otherwise (one
\* byte too long included) it fails without any driver call; when it does
\* call the driver it returns the driver's success or failure.
C14_OutputGuard ==
    dcall.op = "output" =>
        LET d == devs[dcall.dev]
            fits == d.up /\ dcall.len <= d.mtu IN
        /\ Len(dcall.transmit) = (IF fits THEN 1 ELSE 0)
        /\ ~fits => dcall.ret = -1
        /\ fits => /\ dcall.ret = dcall.drv
                   /\ dcall.transmit[1].dev = d.name
                   /\ dcall.transmit[1].len = dcall.len
                   /\ Len(dcall.transmit[1].data) = dcall.len

C14_Witness ==
    /\ dcall.op = "output"
    /\ devs[dcall.dev].up
    /\ dcall.len = devs[dcall.dev].mtu + 1
    /\ dcall.drv = 0
    /\ dcall.ret = -1
    /\ dcall.transmit = <<>>

\* What net_run does when the interrupt subsystem does not start: it fails
\* and no device is opened.
RunFailsClean ==
    (dcall.op = "run" /\ dcall.intr = -1) =>
        /\ dcall.ret = -1
        /\ dcall.opened = <<>>
        /\ \A p \in 1..Len(devs) : ~devs[p].up

\* C16 as stated: net_run opens the registered devices in the order of their
\* registration, the first registered first; when the interrupt subsystem
\* does not start it fails with no device opened.
C16_OpenInRegistrationOrder ==
    /\ RunFailsClean
    /\ (dcall.op = "run" /\ dcall.intr # -1) =>
           /\ dcall.ret = 0
           /\ dcall.opened = [k \in 1..Len(devs) |-> k - 1]

\* C16: net_run opens every registered device once, in the reverse of the
\* order of registration (the device registered last is opened first); when
\* the interrupt subsystem does not start it fails with no device opened.
C16_OpenNewestFirst ==
    /\ RunFailsClean
    /\ (dcall.op = "run" /\ dcall.intr # -1) =>
           /\ dcall.ret = 0
           /\ dcall.opened = [k \in 1..Len(devs) |-> Len(devs) - k]

C16_Witness ==
    /\ dcall.op = "run"
    /\ dcall.ret = 0
    /\ Len(dcall.opened) = MaxDevices
    /\ dcall.opened[1] > dcall.opened[2]
    /\ \E p \in 1..Len(devs) : ~devs[p].up

-----------------------------------------------------------------------------
(* Properties of concurrent callers.                                       *)

\* C19: however two arp_input calls interleave at the mutex, the cache
\* never holds more than one entry in use for one sender protocol address.
C19_OneEntryPerSender ==
    \A pa \in SenderPAs :
        Cardinality({i \in 1..ARP_CACHE_SIZE : NonFree(caches[i]) /\ caches[i].pa = pa}) <= 1

\* The softirq handler is running and has record i still before it.
DrainAhead(i) ==
    /\ cpc # "idle"
    /\ \E k \in 1..(Len(protos) + 1) :
          LET c == Chain(cproto, Len(protos) + 1) IN k <= Len(c) /\ c[k] = i

\* C20: whenever a protocol queue holds a frame, a software interrupt is
\* pending, or a drain that has not passed that queue is running, or the
\* producer stands between its push and its raise; and under fair delivery
\* of the interrupt every pushed frame is eventually handed to a handler.
C20_NoStrandedFrame ==
    /\ [](\A i \in 1..Len(protos) :
             protos[i].queue # <<>> => (irq \/ DrainAhead(i) \/ pc = "in_raise"))
    /\ \A n \in 1..MaxFrames :
          (Len(pushed) >= n) ~> (/\ Len(delivered) >= n
                                 /\ delivered[n].data = pushed[n].data
                                 /\ delivered[n].dev = pushed[n].dev)

C20_Witness ==
    /\ Len(pushed) = 3
    /\ Len(delivered) = 2
    /\ raised = 3
    /\ irq
    /\ cpc = "sirq_pop"
    /\ pc = "idle"

====
